---- MODULE Spec2Model ----
(***************************************************************************)
(* JFS, CXX fuzzing backend: the solver orchestrator                       *)
(* (lib/CXXFuzzingBackend/CXXFuzzingSolver.cpp) and the sort conformance   *)
(* check pass (lib/FuzzingCommon/SortConformanceCheckPass.cpp).            *)
(*                                                                         *)
(* Specifications over the same variables:                                 *)
(*   Spec          one fuzz() call of CXXFuzzingSolverImpl racing with     *)
(*                 cancel() calls made from other threads;                 *)
(*   SpecPass      SortConformanceCheckPass::run on its own, for every     *)
(*                 predicate and every bounded query;                      *)
(*   SpecPassFair  run() with the backend's predicate, under weak          *)
(*                 fairness of the thread that runs it;                    *)
(*   SpecSort      the sort predicate of sortsAreSupported() on its own;   *)
(*   SpecLength    the computation of the fuzzer's maximum input length.   *)
(***************************************************************************)
EXTENDS Integers, Sequences, FiniteSets, TLC

\* ------------------------------------------------------------------ bounds
NumNodes == 3          \* terms of the query's DAG are 1..NumNodes
MaxKids == 2           \* an application has at most this many children
MaxConstraints == 2    \* top-level constraints of a query
NumCancellers == 2     \* threads that each call cancel() once
MaxBufferBits == 2     \* total width of the free variable buffer, in bits
MaxWidth == 66         \* bit-vector widths the sort predicate is applied to
MaxTotalBits == 64     \* buffer widths the input length is computed for

\* ------------------------------------------------------- program constants
MaxSupportedWidth == 64   \* "if (width <= 64)"
BitsPerByte == 8          \* "(computeWidth() + 7) / 8"

\* ------------------------------------------------------------------- sorts
Z3_BOOL_SORT == "Z3_BOOL_SORT"
Z3_BV_SORT == "Z3_BV_SORT"
Z3_FLOATING_POINT_SORT == "Z3_FLOATING_POINT_SORT"

BoolSort == [kind |-> Z3_BOOL_SORT, width |-> 0]
BitVecSort(w) == [kind |-> Z3_BV_SORT, width |-> w]
FloatSort == [kind |-> Z3_FLOATING_POINT_SORT, width |-> 0]

\* The sorts the model knows: Boolean, both sides of the bit-vector width
\* limit, and one sort of another kind.
Sorts ==
    {BoolSort, BitVecSort(MaxSupportedWidth), BitVecSort(MaxSupportedWidth + 1),
     FloatSort}

\* The sorts the terms of the bounded queries are drawn from.
QuerySorts == {BoolSort, BitVecSort(MaxSupportedWidth + 1)}

SortIsSupported_OffByOne(s) ==
    CASE s.kind = Z3_BOOL_SORT -> TRUE
      [] s.kind = Z3_BV_SORT -> s.width < MaxSupportedWidth
      [] OTHER -> FALSE

\* The lambda sortsAreSupported() hands to the pass.
SortIsSupported(s) ==
    CASE s.kind = Z3_BOOL_SORT -> TRUE
      [] s.kind = Z3_BV_SORT -> s.width <= MaxSupportedWidth
      [] OTHER -> FALSE

SupportedSorts == {s \in Sorts : SortIsSupported(s)}

\* IF_VERB(ctx, statement): the statement runs when the context is verbose.
IfVerb(isVerbose, out) == IF isVerbose THEN out ELSE <<>>

\* What the lambda writes to the warning stream for a sort: the width of a
\* bit-vector that is too wide, the text of a sort of another kind.
SortWarnings(s, isVerbose) ==
    CASE s.kind = Z3_BOOL_SORT -> <<>>
      [] s.kind = Z3_BV_SORT ->
            IF s.width <= MaxSupportedWidth
            THEN <<>>
            ELSE IfVerb(isVerbose, <<[names |-> "width", value |-> s.width]>>)
      [] OTHER -> IfVerb(isVerbose, <<[names |-> "sort", value |-> s.kind]>>)

\* The sorts the lambda is applied to on its own.
ArgSorts == {BoolSort, FloatSort} \cup {BitVecSort(w) : w \in 1 .. MaxWidth}

\* ------------------------------------------------------------------- query
Nodes == 1 .. NumNodes

\* Sequences over S of length at most n that name no element twice.
SeqsUpTo(S, n) ==
    {q \in UNION {[1 .. k -> S] : k \in 0 .. n} :
        \A i, j \in 1 .. Len(q) : i # j => q[i] # q[j]}

\* What one node can be: an application over later nodes only (the term graph
\* is a DAG), or, for the last node, a term that is no application and has
\* no children.
NodeShapes(n) ==
    {[app |-> TRUE, kids |-> ks] : ks \in SeqsUpTo((n + 1) .. NumNodes, MaxKids)}
        \cup (IF n = NumNodes THEN {[app |-> FALSE, kids |-> <<>>]} ELSE {})

\* The term graphs over Nodes: one shape for each of the nodes n .. NumNodes.
RECURSIVE ShapesFrom(_)
ShapesFrom(n) ==
    IF n > NumNodes
    THEN {<<>>}
    ELSE {<<sh>> \o rest : sh \in NodeShapes(n), rest \in ShapesFrom(n + 1)}

RECURSIVE Reverse(_)
Reverse(s) == IF s = <<>> THEN <<>> ELSE Append(Reverse(Tail(s)), Head(s))

Range(s) == {s[i] : i \in 1 .. Len(s)}

\* The query: Query::constraints in order, and for every node its children
\* in index order, Z3ASTHandle::isApp() and its sort.
VARIABLES constraints, kids, isApp, sortOf

\* SortConformanceCheckPass: the sorts the predicate accepts, the field
\* predicateHeld, the locals workList and visited of run(), where run() is
\* ("fresh", "loop", "done"), and for every node the number of times the
\* predicate was applied to it.
VARIABLES predicate, predicateHeld, workList, visited, passPc, evals

\* CXXFuzzingSolverImpl: the atomic flag, the registry of passes (by
\* address), the holder of cancellablePassesMutex, the LibFuzzerOptions of
\* the solver's options, the directories made through the
\* WorkingDirectoryManager.
VARIABLES cancelled, cancellablePasses, mutexOwner, lfo, dirs

\* The ClangOptions of the solver's options: whether TRACE_CMP is among the
\* sanitizerCoverageOptions.
VARIABLES clangOptions

\* The thread inside fuzz(): where it is, its argument, what it returned
\* ("none" until it returns), the pass objects that exist, what cim.compile()
\* returned and fuzzingResponse->outcome ("unset" before).
VARIABLES pc, produceModel, response, alive, compileSuccess, fuzzOutcome

\* The threads calling cancel(): where each is, and whether the process died
\* of a call through a dangling pointer.
VARIABLES cpc, crashed

\* Observations: the stage begin and end events of the call in order; the
\* flag's value when the call crossed each boundary; for every canceller the
\* phase of the call in which it called cancel(); the cancel() calls that had
\* returned when fuzz() began; for every pass the cancel() calls it received
\* alive; the cancel() calls made through a dangling pass pointer; for every
\* canceller its calls of ClangInvocationManager::cancel() and of
\* LibFuzzerInvocationManager::cancel().
VARIABLES history, seen, calledIn, doneBeforeCall, passCancels, deadCancels,
          cimCancels, limCancels

\* The two computations checked on their own: the sort the lambda of
\* sortsAreSupported() is applied to, whether the context is verbose, the
\* answers the lambda returned and what it wrote to the warning stream; the
\* width computeWidth() returns and the lengths computed from it.
VARIABLES sort, verbose, answers, warnings, totalWidth, maxLength

fnVars == <<sort, verbose, answers, warnings, totalWidth, maxLength>>
passVars == <<predicate, predicateHeld, workList, visited, passPc, evals>>
queryVars == <<constraints, kids, isApp, sortOf>>
inputVars == <<queryVars, clangOptions>>
implVars == <<cancelled, cancellablePasses, mutexOwner, lfo, dirs>>
solveVars == <<pc, produceModel, response, alive, compileSuccess, fuzzOutcome>>
cancelVars == <<cpc, crashed>>
obsVars == <<history, seen, calledIn, doneBeforeCall, passCancels, deadCancels,
             cimCancels, limCancels>>
solverVars == <<implVars, solveVars, cancelVars, obsVars>>
vars == <<inputVars, fnVars, passVars, solverVars>>

\* ------------------------------------------------ SortConformanceCheckPass
\* SortConformanceCheckPass's constructor: predicateHeld(false).
PassInit ==
    /\ predicateHeld = FALSE
    /\ workList = <<>>
    /\ visited = {}
    /\ passPc = "fresh"
    /\ evals = [n \in Nodes |-> 0]

\* Lines 25-33: the worklist is seeded by push_front of every constraint, the
\* visited set starts empty and predicateHeld is set.
RunBegin ==
    /\ passPc = "fresh"
    /\ workList' = Reverse(constraints)
    /\ visited' = {}
    /\ predicateHeld' = TRUE
    /\ passPc' = "loop"
    /\ UNCHANGED <<predicate, evals>>

PopFront_Keep(list) == list

\* Line 36: workList.pop_front().
PopFront(list) == Tail(list)

MarkVisited_Forget(node, set) == set

\* Line 48: visited.insert(node).
MarkVisited(node, set) == set \cup {node}

PushKids_FirstOnly(node, list) ==
    IF kids[node] = <<>> THEN list ELSE <<kids[node][1]>> \o list

\* Lines 53-56: push_front of every child, in index order.
PushKids(node, list) == Reverse(kids[node]) \o list

\* One iteration of the while loop (lines 34-57).
RunLoop ==
    /\ passPc = "loop"
    /\ workList # <<>>
    /\ LET node == Head(workList)
           rest == PopFront(workList)
       IN  IF node \in visited
           THEN \* already visited: skip
                /\ workList' = rest
                /\ UNCHANGED <<visited, predicateHeld, passPc, evals>>
           ELSE /\ evals' = [evals EXCEPT ![node] = @ + 1]
                /\ IF sortOf[node] \notin predicate
                   THEN \* predicate failed: break
                        /\ predicateHeld' = FALSE
                        /\ workList' = rest
                        /\ passPc' = "done"
                        /\ UNCHANGED visited
                   ELSE /\ visited' = MarkVisited(node, visited)
                        /\ workList' = IF isApp[node]
                                       THEN PushKids(node, rest)
                                       ELSE rest
                        /\ UNCHANGED <<predicateHeld, passPc>>
    /\ UNCHANGED predicate

\* The loop condition fails: run returns (line 59).
RunReturn ==
    /\ passPc = "loop"
    /\ workList = <<>>
    /\ passPc' = "done"
    /\ UNCHANGED <<predicate, predicateHeld, workList, visited, evals>>

\* ------------------------------------------- the lambda and the length
\* Nothing applied yet.
FnInit ==
    /\ answers = <<>>
    /\ warnings = <<>>
    /\ maxLength = <<>>

\* ---------------------------------------------------- CXXFuzzingSolverImpl
\* The two passes fuzz() makes cancellable: p of sortsAreSupported() and pbp.
SortPass == "p"
BuilderPass == "pbp"
Passes == {SortPass, BuilderPass}

Cancellers == 1 .. NumCancellers

\* Who can hold cancellablePassesMutex.
Free == <<"free">>
SolveThread == <<"solve">>
CancelThread(c) == <<"cancel", c>>

Boundaries ==
    {"Call->CheckSorts", "CheckSorts->BuildProgram", "BuildProgram->Compile",
     "Compile->ConfigureFuzzer", "ConfigureFuzzer->Fuzz"}

\* The flag as an observation of a boundary: "unset" until it is crossed.
Flag(b) == IF b THEN "set" ELSE "clear"

\* Where the thread inside fuzz() is, as a phase of the call.
Phase(at) ==
    CASE at = "idle" -> "NotStarted"
      [] at \in {"cs_lock", "cs_insert", "cs_run", "cs_lock2", "cs_erase",
                 "cs_ret"} -> "CheckSorts"
      [] at = "chk1" -> "AfterCheckSorts"
      [] at \in {"bp_lock", "bp_insert", "bp_run", "bp_running"} -> "BuildProgram"
      [] at \in {"bp_lock2", "bp_reinsert", "chk2", "compile"} -> "AfterBuildProgram"
      [] at = "compiling" -> "Compile"
      [] at = "chk3" -> "AfterCompile"
      [] at = "configure" -> "ConfigureFuzzer"
      [] at = "fuzz" -> "AfterConfigure"
      [] at = "fuzzing" -> "Fuzz"
      [] OTHER -> "Returned"

\* The LibFuzzerOptions inside the options the constructor is given.
OptionsAtConstruction ==
    [maxLength |-> 0, targetBinary |-> "", corpusDir |-> "", artifactDir |-> "",
     useCmp |-> FALSE]

\* The constructor: cancelled(false), an empty registry, the options as given.
ImplInit ==
    /\ cancelled = FALSE
    /\ cancellablePasses = {}
    /\ mutexOwner = Free
    /\ lfo = OptionsAtConstruction
    /\ dirs = {}

SolverInit ==
    /\ ImplInit
    /\ pc = "idle"
    /\ produceModel = FALSE
    /\ response = "none"
    /\ alive = {}
    /\ compileSuccess = "unset"
    /\ fuzzOutcome = "unset"
    /\ cpc = [c \in Cancellers |-> "idle"]
    /\ crashed = FALSE
    /\ history = <<>>
    /\ seen = [b \in Boundaries |-> "unset"]
    /\ calledIn = [c \in Cancellers |-> "none"]
    /\ doneBeforeCall = {}
    /\ passCancels = [x \in Passes |-> 0]
    /\ deadCancels = 0
    /\ cimCancels = [c \in Cancellers |-> 0]
    /\ limCancels = [c \in Cancellers |-> 0]

\* A return from fuzz(): the locals pm and pbp go out of scope.
Return(r) ==
    /\ response' = r
    /\ pc' = "done"
    /\ alive' = alive \ {BuilderPass}

\* std::lock_guard on cancellablePassesMutex, taken by the thread in fuzz().
SolveLock(from, to) ==
    /\ ~crashed
    /\ pc = from
    /\ mutexOwner = Free
    /\ mutexOwner' = SolveThread
    /\ pc' = to
    /\ UNCHANGED <<cancelled, cancellablePasses, lfo, dirs>>
    /\ UNCHANGED <<produceModel, response, alive, compileSuccess, fuzzOutcome>>
    /\ UNCHANGED <<inputVars, fnVars, passVars, cancelVars, obsVars>>

\* The body of a locked block, up to the release of the lock.
SolveLocked(from, to, registry) ==
    /\ ~crashed
    /\ pc = from
    /\ mutexOwner = SolveThread
    /\ cancellablePasses' = registry
    /\ mutexOwner' = Free
    /\ pc' = to
    /\ UNCHANGED <<cancelled, lfo, dirs>>
    /\ UNCHANGED <<produceModel, response, alive, compileSuccess, fuzzOutcome>>
    /\ UNCHANGED <<inputVars, fnVars, passVars, cancelVars, obsVars>>

AfterGate_NoGate(pm) == "cs_lock"

\* Lines 139-142: where fuzz() goes from the model request gate.
AfterGate(pm) == IF pm THEN "done" ELSE "cs_lock"

\* Lines 136-142: the model request gate; then sortsAreSupported() makes p.
FuzzCall ==
    /\ ~crashed
    /\ pc = "idle"
    /\ \E pm \in BOOLEAN :
          /\ produceModel' = pm
          /\ IF AfterGate(pm) = "done"
             THEN /\ Return("nullptr")
                  /\ UNCHANGED seen
             ELSE /\ pc' = "cs_lock"
                  /\ alive' = alive \cup {SortPass}
                  /\ seen' = [seen EXCEPT !["Call->CheckSorts"] = Flag(cancelled)]
                  /\ UNCHANGED response
    /\ doneBeforeCall' = {c \in Cancellers : cpc[c] = "done"}
    /\ UNCHANGED <<compileSuccess, fuzzOutcome>>
    /\ UNCHANGED <<history, calledIn, passCancels, deadCancels, cimCancels,
                   limCancels>>
    /\ UNCHANGED <<inputVars, fnVars, passVars, implVars, cancelVars>>

\* Lines 118-123.
SortsLock == SolveLock("cs_lock", "cs_insert")

SortsInsert ==
    SolveLocked("cs_insert", "cs_run", cancellablePasses \cup {SortPass})

\* Line 125: pm.run(q) runs the pass, one step of run() at a time.
SortsRun ==
    /\ ~crashed
    /\ pc = "cs_run"
    /\ \/ RunBegin
       \/ RunLoop
       \/ RunReturn
    /\ pc' = IF passPc' = "done" THEN "cs_lock2" ELSE "cs_run"
    /\ history' = IF passPc = "fresh" THEN Append(history, "CheckSorts.begin")
                  ELSE IF passPc' = "done" THEN Append(history, "CheckSorts.end")
                  ELSE history
    /\ UNCHANGED <<produceModel, response, alive, compileSuccess, fuzzOutcome>>
    /\ UNCHANGED <<seen, calledIn, doneBeforeCall, passCancels, deadCancels,
                   cimCancels, limCancels>>
    /\ UNCHANGED <<inputVars, fnVars, implVars, cancelVars>>

\* Lines 127-131.
SortsLock2 == SolveLock("cs_lock2", "cs_erase")

SortsErase ==
    SolveLocked("cs_erase", "cs_ret", cancellablePasses \ {SortPass})

AfterSorts_IgnoreResult(held) == "chk1"

\* Lines 151-155: where fuzz() goes with the answer of sortsAreSupported().
AfterSorts(held) == IF ~held THEN "done" ELSE "chk1"

\* Lines 132 and 151-155: p is destroyed, its answer decides.
SortsReturn ==
    /\ ~crashed
    /\ pc = "cs_ret"
    /\ IF AfterSorts(predicateHeld) = "done"
       THEN /\ response' = "UNKNOWN"
            /\ pc' = "done"
       ELSE /\ pc' = "chk1"
            /\ UNCHANGED response
    /\ alive' = alive \ {SortPass}
    /\ UNCHANGED <<produceModel, compileSuccess, fuzzOutcome>>
    /\ UNCHANGED <<inputVars, fnVars, passVars, implVars, cancelVars, obsVars>>

CheckCancelled_Ignore(from, to, b, made) ==
    /\ ~crashed
    /\ pc = from
    /\ seen' = [seen EXCEPT ![b] = Flag(cancelled)]
    /\ pc' = to
    /\ alive' = alive \cup made
    /\ UNCHANGED <<produceModel, response, compileSuccess, fuzzOutcome>>
    /\ UNCHANGED <<history, calledIn, doneBeforeCall, passCancels, deadCancels,
                   cimCancels, limCancels>>
    /\ UNCHANGED <<inputVars, fnVars, passVars, implVars, cancelVars>>

\* CHECK_CANCELLED() at the boundary b; when the flag is clear the call goes
\* on to `to`, after making the passes `made`.
CheckCancelled(from, to, b, made) ==
    /\ ~crashed
    /\ pc = from
    /\ seen' = [seen EXCEPT ![b] = Flag(cancelled)]
    /\ IF cancelled
       THEN Return("UNKNOWN")
       ELSE /\ pc' = to
            /\ alive' = alive \cup made
            /\ UNCHANGED response
    /\ UNCHANGED <<produceModel, compileSuccess, fuzzOutcome>>
    /\ UNCHANGED <<history, calledIn, doneBeforeCall, passCancels, deadCancels,
                   cimCancels, limCancels>>
    /\ UNCHANGED <<inputVars, fnVars, passVars, implVars, cancelVars>>

\* Line 158, then line 162 makes pbp.
CheckCancelled1 ==
    CheckCancelled("chk1", "bp_lock", "CheckSorts->BuildProgram", {BuilderPass})

\* Lines 164-169.
BuildLock == SolveLock("bp_lock", "bp_insert")

BuildInsert ==
    SolveLocked("bp_insert", "bp_run", cancellablePasses \cup {BuilderPass})

\* A step of the thread in fuzz() that changes only where it is and adds the
\* event e to the history.
StageStep(from, to, e) ==
    /\ ~crashed
    /\ pc = from
    /\ pc' = to
    /\ history' = Append(history, e)
    /\ UNCHANGED <<produceModel, response, alive, compileSuccess, fuzzOutcome>>
    /\ UNCHANGED <<seen, calledIn, doneBeforeCall, passCancels, deadCancels,
                   cimCancels, limCancels>>
    /\ UNCHANGED <<inputVars, fnVars, passVars, implVars, cancelVars>>

\* Line 170: pm.run(q) runs the program builder pass.
BuildBegin == StageStep("bp_run", "bp_running", "BuildProgram.begin")

BuildEnd == StageStep("bp_running", "bp_lock2", "BuildProgram.end")

\* Lines 171-175: the block that follows the pass inserts pbp once more.
BuildLock2 == SolveLock("bp_lock2", "bp_reinsert")

BuildReinsert ==
    SolveLocked("bp_reinsert", "chk2", cancellablePasses \cup {BuilderPass})

\* Line 178.
CheckCancelled2 == CheckCancelled("chk2", "compile", "BuildProgram->Compile", {})

\* Lines 185-199: cim.compile() is called and blocks.
CompileCall == StageStep("compile", "compiling", "Compile.begin")

AfterCompile_Retry(ok) == IF ~ok THEN "compile" ELSE "chk3"

AfterCompile_IgnoreFailure(ok) == "chk3"

\* Lines 200-203: where fuzz() goes with the answer of cim.compile().
AfterCompile(ok) == IF ~ok THEN "done" ELSE "chk3"

\* Lines 194-203: compile() returns; failure ends the call.
CompileReturn ==
    /\ ~crashed
    /\ pc = "compiling"
    /\ \E ok \in BOOLEAN :
          /\ compileSuccess' = IF ok THEN "success" ELSE "failure"
          /\ IF AfterCompile(ok) = "done"
             THEN Return("UNKNOWN")
             ELSE /\ pc' = AfterCompile(ok)
                  /\ UNCHANGED <<response, alive>>
    /\ history' = Append(history, "Compile.end")
    /\ UNCHANGED <<produceModel, fuzzOutcome>>
    /\ UNCHANGED <<seen, calledIn, doneBeforeCall, passCancels, deadCancels,
                   cimCancels, limCancels>>
    /\ UNCHANGED <<inputVars, fnVars, passVars, implVars, cancelVars>>

CheckCancelled3_Missing ==
    CheckCancelled_Ignore("chk3", "configure", "Compile->ConfigureFuzzer", {})

\* Line 205.
CheckCancelled3 ==
    CheckCancelled("chk3", "configure", "Compile->ConfigureFuzzer", {})

MaxLengthFor_RoundDown(width) == width \div BitsPerByte

\* Lines 211-213.
MaxLengthFor(width) == (width + 7) \div BitsPerByte

ConfiguredOptions_KeepTarget(old, width, traceCmp) ==
    [maxLength |-> MaxLengthFor(width), targetBinary |-> old.targetBinary,
     corpusDir |-> "corpus", artifactDir |-> "artifacts", useCmp |-> traceCmp]

\* Lines 208-229: what fuzz() writes through lfo, the pointer to the
\* LibFuzzerOptions of the solver's options.
ConfiguredOptions(old, width, traceCmp) ==
    [maxLength |-> MaxLengthFor(width), targetBinary |-> "fuzzer",
     corpusDir |-> "corpus", artifactDir |-> "artifacts", useCmp |-> traceCmp]

\* Lines 208-236: the LibFuzzer options are set, the directories made. The
\* width of the buffer assignment is read here.
ConfigureFuzzer ==
    /\ ~crashed
    /\ pc = "configure"
    /\ \E width \in 0 .. MaxBufferBits :
          lfo' = ConfiguredOptions(lfo, width, clangOptions.traceCmp)
    /\ dirs' = dirs \cup {"corpus", "artifacts"}
    /\ pc' = "fuzz"
    /\ history' = history \o <<"ConfigureFuzzer.begin", "ConfigureFuzzer.end">>
    /\ seen' = [seen EXCEPT !["ConfigureFuzzer->Fuzz"] = Flag(cancelled)]
    /\ UNCHANGED <<cancelled, cancellablePasses, mutexOwner>>
    /\ UNCHANGED <<produceModel, response, alive, compileSuccess, fuzzOutcome>>
    /\ UNCHANGED <<calledIn, doneBeforeCall, passCancels, deadCancels,
                   cimCancels, limCancels>>
    /\ UNCHANGED <<inputVars, fnVars, passVars, cancelVars>>

\* Lines 238-239: lim.fuzz() is called and blocks.
FuzzerCall == StageStep("fuzz", "fuzzing", "Fuzz.begin")

ResponseTy == {"TARGET_FOUND", "UNKNOWN", "CANCELLED"}

FuzzVerdict_UnknownIsSat(outcome) ==
    IF outcome = "CANCELLED" THEN "UNKNOWN" ELSE "SAT"

FuzzVerdict_CancelledIsSat(outcome) ==
    IF outcome = "UNKNOWN" THEN "UNKNOWN" ELSE "SAT"

\* Lines 240-250: the satisfiability fuzz() answers for an outcome.
FuzzVerdict(outcome) ==
    IF outcome = "UNKNOWN" \/ outcome = "CANCELLED" THEN "UNKNOWN" ELSE "SAT"

\* lim.fuzz() returns.
FuzzerReturn ==
    /\ ~crashed
    /\ pc = "fuzzing"
    /\ \E outcome \in ResponseTy :
          /\ fuzzOutcome' = outcome
          /\ Return(FuzzVerdict(outcome))
    /\ history' = Append(history, "Fuzz.end")
    /\ UNCHANGED <<produceModel, compileSuccess>>
    /\ UNCHANGED <<seen, calledIn, doneBeforeCall, passCancels, deadCancels,
                   cimCancels, limCancels>>
    /\ UNCHANGED <<inputVars, fnVars, passVars, implVars, cancelVars>>

\* ------------------------------------------ CXXFuzzingSolverImpl::cancel
CancelSetFlag_Forget(c) ==
    /\ ~crashed
    /\ cpc[c] = "idle"
    /\ \A b \in Cancellers : b < c => cpc[b] # "idle"
    /\ cpc' = [cpc EXCEPT ![c] = "lock"]
    /\ calledIn' = [calledIn EXCEPT ![c] = Phase(pc)]
    /\ UNCHANGED <<cancelled, cancellablePasses, mutexOwner, lfo, dirs, crashed>>
    /\ UNCHANGED <<history, seen, doneBeforeCall, passCancels, deadCancels,
                   cimCancels, limCancels>>
    /\ UNCHANGED <<inputVars, fnVars, passVars, solveVars>>

\* Line 73. The calling threads are alike: they are numbered in the order
\* of their calls.
CancelSetFlag(c) ==
    /\ ~crashed
    /\ cpc[c] = "idle"
    /\ \A b \in Cancellers : b < c => cpc[b] # "idle"
    /\ cancelled' = TRUE
    /\ cpc' = [cpc EXCEPT ![c] = "lock"]
    /\ calledIn' = [calledIn EXCEPT ![c] = Phase(pc)]
    /\ UNCHANGED <<cancellablePasses, mutexOwner, lfo, dirs, crashed>>
    /\ UNCHANGED <<history, seen, doneBeforeCall, passCancels, deadCancels,
                   cimCancels, limCancels>>
    /\ UNCHANGED <<inputVars, fnVars, passVars, solveVars>>

\* Line 76.
CancelLock(c) ==
    /\ ~crashed
    /\ cpc[c] = "lock"
    /\ mutexOwner = Free
    /\ mutexOwner' = CancelThread(c)
    /\ cpc' = [cpc EXCEPT ![c] = "passes"]
    /\ UNCHANGED <<cancelled, cancellablePasses, lfo, dirs, crashed>>
    /\ UNCHANGED <<inputVars, fnVars, passVars, solveVars, obsVars>>

CancelPasses_Skip(c) ==
    /\ ~crashed
    /\ cpc[c] = "passes"
    /\ mutexOwner = CancelThread(c)
    /\ mutexOwner' = Free
    /\ cpc' = [cpc EXCEPT ![c] = "cim"]
    /\ UNCHANGED <<cancelled, cancellablePasses, lfo, dirs, crashed>>
    /\ UNCHANGED obsVars
    /\ UNCHANGED <<inputVars, fnVars, passVars, solveVars>>

\* Lines 77-80: pass->cancel() on every registered pass, then the lock is
\* released. A registered pass that no longer exists is called through a
\* dangling pointer: the call returns, or the process dies.
CancelPasses(c) ==
    /\ ~crashed
    /\ cpc[c] = "passes"
    /\ mutexOwner = CancelThread(c)
    /\ passCancels' = [x \in Passes |->
                         IF x \in cancellablePasses /\ x \in alive
                         THEN passCancels[x] + 1 ELSE passCancels[x]]
    /\ deadCancels' = deadCancels + Cardinality(cancellablePasses \ alive)
    /\ \/ /\ mutexOwner' = Free
          /\ cpc' = [cpc EXCEPT ![c] = "cim"]
          /\ UNCHANGED crashed
       \/ /\ cancellablePasses \ alive # {}
          /\ crashed' = TRUE
          /\ UNCHANGED <<mutexOwner, cpc>>
    /\ UNCHANGED <<cancelled, cancellablePasses, lfo, dirs>>
    /\ UNCHANGED <<history, seen, calledIn, doneBeforeCall, cimCancels,
                   limCancels>>
    /\ UNCHANGED <<inputVars, fnVars, passVars, solveVars>>

CancelCim_Skip(c) ==
    /\ ~crashed
    /\ cpc[c] = "cim"
    /\ cpc' = [cpc EXCEPT ![c] = "lim"]
    /\ UNCHANGED obsVars
    /\ UNCHANGED <<inputVars, fnVars, passVars, implVars, solveVars, crashed>>

\* Line 82.
CancelCim(c) ==
    /\ ~crashed
    /\ cpc[c] = "cim"
    /\ cimCancels' = [cimCancels EXCEPT ![c] = @ + 1]
    /\ cpc' = [cpc EXCEPT ![c] = "lim"]
    /\ UNCHANGED <<history, seen, calledIn, doneBeforeCall, passCancels,
                   deadCancels, limCancels>>
    /\ UNCHANGED <<inputVars, fnVars, passVars, implVars, solveVars, crashed>>

\* Line 84.
CancelLim(c) ==
    /\ ~crashed
    /\ cpc[c] = "lim"
    /\ limCancels' = [limCancels EXCEPT ![c] = @ + 1]
    /\ cpc' = [cpc EXCEPT ![c] = "done"]
    /\ UNCHANGED <<history, seen, calledIn, doneBeforeCall, passCancels,
                   deadCancels, cimCancels>>
    /\ UNCHANGED <<inputVars, fnVars, passVars, implVars, solveVars, crashed>>

\* -------------------------------------------------------------------- Spec
\* The queries fuzz() is called with: nothing to check, or two constraints
\* that share the last node as their child; every term is Boolean, except
\* that one of them may be a bit-vector wider than the limit.
SolverQueryInit ==
    /\ constraints \in {<<>>, <<1, 2>>}
    /\ kids = [n \in Nodes |-> IF n < NumNodes THEN <<NumNodes>> ELSE <<>>]
    /\ isApp = [n \in Nodes |-> TRUE]
    /\ \E wide \in SUBSET Nodes :
          /\ Cardinality(wide) <= 1
          /\ sortOf = [n \in Nodes |->
                         IF n \in wide THEN BitVecSort(MaxSupportedWidth + 1)
                         ELSE BoolSort]

\* The lambda and the length computation as they are inside the call.
FnIdle ==
    /\ sort = BoolSort
    /\ verbose = FALSE
    /\ totalWidth = 0
    /\ FnInit

Init ==
    /\ SolverQueryInit
    /\ clangOptions \in [traceCmp : BOOLEAN]
    /\ predicate = SupportedSorts
    /\ PassInit
    /\ SolverInit
    /\ FnIdle

Next ==
    \/ FuzzCall
    \/ SortsLock
    \/ SortsInsert
    \/ SortsRun
    \/ SortsLock2
    \/ SortsErase
    \/ SortsReturn
    \/ CheckCancelled1
    \/ BuildLock
    \/ BuildInsert
    \/ BuildBegin
    \/ BuildEnd
    \/ BuildLock2
    \/ BuildReinsert
    \/ CheckCancelled2
    \/ CompileCall
    \/ CompileReturn
    \/ CheckCancelled3
    \/ ConfigureFuzzer
    \/ FuzzerCall
    \/ FuzzerReturn
    \/ \E c \in Cancellers : CancelSetFlag(c)
    \/ \E c \in Cancellers : CancelLock(c)
    \/ \E c \in Cancellers : CancelPasses(c)
    \/ \E c \in Cancellers : CancelCim(c)
    \/ \E c \in Cancellers : CancelLim(c)

Spec == Init /\ [][Next]_vars

\* ---------------------------------------------------------------- SpecPass
\* The queries of the bounded universe: a non-application has no children.
QueryInit ==
    /\ constraints \in SeqsUpTo(Nodes, MaxConstraints)
    /\ \E g \in ShapesFrom(1) :
          /\ kids = [n \in Nodes |-> g[n].kids]
          /\ isApp = [n \in Nodes |-> g[n].app]
    /\ sortOf \in [Nodes -> QuerySorts]

InitPass ==
    /\ QueryInit
    /\ clangOptions = [traceCmp |-> FALSE]
    /\ predicate \in SUBSET QuerySorts
    /\ PassInit
    /\ SolverInit
    /\ FnIdle

NextPass ==
    \/ RunBegin /\ UNCHANGED <<inputVars, fnVars, solverVars>>
    \/ RunLoop /\ UNCHANGED <<inputVars, fnVars, solverVars>>
    \/ RunReturn /\ UNCHANGED <<inputVars, fnVars, solverVars>>

SpecPass == InitPass /\ [][NextPass]_vars

\* The pass as sortsAreSupported() makes it, with the backend's predicate,
\* over the queries of the bounded universe.
InitPassFair ==
    /\ QueryInit
    /\ clangOptions = [traceCmp |-> FALSE]
    /\ predicate = SupportedSorts
    /\ PassInit
    /\ SolverInit
    /\ FnIdle

\* run() under weak fairness: a call of run() that can take a step takes it
\* (the thread running the pass is scheduled).
SpecPassFair == InitPassFair /\ [][NextPass]_vars /\ WF_vars(NextPass)

\* ---------------------------------------------------------------- SpecSort
\* The lambda of sortsAreSupported() (lines 90-115) applied once to a sort.
ApplyPredicate ==
    /\ answers = <<>>
    /\ answers' = <<SortIsSupported(sort)>>
    /\ warnings' = warnings \o SortWarnings(sort, verbose)
    /\ UNCHANGED <<sort, verbose, totalWidth, maxLength>>
    /\ UNCHANGED <<inputVars, passVars, solverVars>>

\* A query with no constraint: the pass and the solver stay as constructed.
NoQuery ==
    /\ constraints = <<>>
    /\ kids = [n \in Nodes |-> <<>>]
    /\ isApp = [n \in Nodes |-> TRUE]
    /\ sortOf = [n \in Nodes |-> BoolSort]
    /\ clangOptions = [traceCmp |-> FALSE]
    /\ predicate = SupportedSorts
    /\ PassInit
    /\ SolverInit

InitSort ==
    /\ sort \in ArgSorts
    /\ verbose \in BOOLEAN
    /\ totalWidth = 0
    /\ FnInit
    /\ NoQuery

NextSort == ApplyPredicate

SpecSort == InitSort /\ [][NextSort]_vars

\* -------------------------------------------------------------- SpecLength
\* Lines 211-213 on their own: the length for the width computeWidth()
\* returns.
ComputeMaxLength ==
    /\ maxLength = <<>>
    /\ maxLength' = <<MaxLengthFor(totalWidth)>>
    /\ UNCHANGED <<sort, verbose, answers, warnings, totalWidth>>
    /\ UNCHANGED <<inputVars, passVars, solverVars>>

InitLength ==
    /\ totalWidth \in 0 .. MaxTotalBits
    /\ sort = BoolSort
    /\ verbose = FALSE
    /\ FnInit
    /\ NoQuery

NextLength == ComputeMaxLength

SpecLength == InitLength /\ [][NextLength]_vars

\* ------------------------------------------------------------ observations
IsPrefix(s, t) == Len(s) <= Len(t) /\ \A i \in 1 .. Len(s) : s[i] = t[i]

Events == Range(history)

\* The events of a call that runs every stage.
StageTrace ==
    <<"CheckSorts.begin", "CheckSorts.end", "BuildProgram.begin",
      "BuildProgram.end", "Compile.begin", "Compile.end",
      "ConfigureFuzzer.begin", "ConfigureFuzzer.end", "Fuzz.begin", "Fuzz.end">>

\* The first event of the stage that follows a boundary.
StageAfter(b) ==
    CASE b = "Call->CheckSorts" -> "CheckSorts.begin"
      [] b = "CheckSorts->BuildProgram" -> "BuildProgram.begin"
      [] b = "BuildProgram->Compile" -> "Compile.begin"
      [] b = "Compile->ConfigureFuzzer" -> "ConfigureFuzzer.begin"
      [] b = "ConfigureFuzzer->Fuzz" -> "Fuzz.begin"

\* The boundaries at which the code has a CHECK_CANCELLED().
Checkpoints ==
    {"CheckSorts->BuildProgram", "BuildProgram->Compile",
     "Compile->ConfigureFuzzer"}

\* The terms reachable from a set of terms through children of applications.
RECURSIVE Closure(_)
Closure(S) ==
    LET T == S \cup UNION {Range(kids[n]) : n \in {m \in S : isApp[m]}}
    IN  IF T = S THEN S ELSE Closure(T)

ReachableTerms == Closure(Range(constraints))

Parents(n) == {m \in ReachableTerms : isApp[m] /\ n \in Range(kids[m])}

\* ------------------------------------------------------------------ claims

\* C1: once the call has reached the Fuzz stage, the verdict it returns is
\* decided by the outcome of lim.fuzz() alone: TARGET_FOUND gives SAT, UNKNOWN
\* and CANCELLED give UNKNOWN, whatever the cancel flag says.
C1_FuzzOutcomeDecidesVerdict ==
    (pc = "done" /\ "Fuzz.begin" \in Events) =>
        /\ fuzzOutcome \in ResponseTy
        /\ fuzzOutcome = "TARGET_FOUND" => response = "SAT"
        /\ fuzzOutcome \in {"UNKNOWN", "CANCELLED"} => response = "UNKNOWN"

C1_Witness ==
    /\ pc = "done"
    /\ fuzzOutcome = "TARGET_FOUND"
    /\ response = "SAT"
    /\ cancelled

\* C2: the stage events of a call are always a prefix of CheckSorts,
\* BuildProgram, Compile, ConfigureFuzzer, Fuzz, each begun after the one
\* before it has ended, and none begun twice.
C2_StagesInOrder == IsPrefix(history, StageTrace)

C2_Witness == pc = "done" /\ history = StageTrace

\* C3 as stated: at all five boundaries, a flag that is set when the call
\* crosses the boundary keeps the next stage from running and makes the call
\* return UNKNOWN.
C3_Original ==
    \A b \in Boundaries :
        seen[b] = "set" =>
            /\ StageAfter(b) \notin Events
            /\ pc = "done" => response = "UNKNOWN"

\* C3, amended: at the three CHECK_CANCELLED() checkpoints (after CheckSorts,
\* after BuildProgram, after Compile) a flag that is set makes the call return
\* UNKNOWN at once, and the next stage does not run.
C3_Checkpoints ==
    \A b \in Checkpoints :
        seen[b] = "set" =>
            /\ pc = "done"
            /\ response = "UNKNOWN"
            /\ StageAfter(b) \notin Events

C3_Witness ==
    /\ seen["Compile->ConfigureFuzzer"] = "set"
    /\ compileSuccess = "success"
    /\ pc = "done"

\* C4 as stated: a call that begins after a cancel() has returned answers
\* UNKNOWN and invokes neither compile nor fuzz.
C4_Original ==
    doneBeforeCall # {} =>
        /\ "Compile.begin" \notin Events
        /\ "Fuzz.begin" \notin Events
        /\ pc = "done" => response = "UNKNOWN"

\* C4, amended: a call that begins after a cancel() has returned invokes
\* neither compile nor fuzz, and answers UNKNOWN unless it requested a model,
\* in which case it returns no response.
C4_CancelBeforeSolve ==
    doneBeforeCall # {} =>
        /\ "Compile.begin" \notin Events
        /\ "Fuzz.begin" \notin Events
        /\ pc = "done" =>
              response = IF produceModel THEN "nullptr" ELSE "UNKNOWN"

C4_Witness ==
    /\ doneBeforeCall # {}
    /\ pc = "done"
    /\ ~produceModel
    /\ predicateHeld
    /\ response = "UNKNOWN"

\* C5: a cancel() called after the builder pass has finished and before
\* cim.compile() is called makes the call return UNKNOWN, and that cancel()
\* call has called cim.cancel() by the time it returns.
C5_CancelAfterBuild ==
    \A c \in Cancellers :
        calledIn[c] = "AfterBuildProgram" =>
            /\ pc = "done" => response = "UNKNOWN"
            /\ cpc[c] = "done" => cimCancels[c] >= 1

C5_Witness ==
    \E c \in Cancellers :
        /\ calledIn[c] = "AfterBuildProgram"
        /\ cpc[c] = "done"
        /\ pc = "done"
        /\ response = "UNKNOWN"

\* C6 as stated: a pass is in the registry while it runs, is out of it once
\* the block that follows its run has been left, and the registry is empty
\* when the call has returned.
C6_RegistryDiscipline ==
    /\ passPc = "loop" => SortPass \in cancellablePasses
    /\ pc = "bp_running" => BuilderPass \in cancellablePasses
    /\ ("CheckSorts.end" \in Events /\ pc \notin {"cs_lock2", "cs_erase"})
          => SortPass \notin cancellablePasses
    /\ ("BuildProgram.end" \in Events /\ pc \notin {"bp_lock2", "bp_reinsert"})
          => BuilderPass \notin cancellablePasses
    /\ pc = "done" => cancellablePasses = {}

\* C7 as stated: a call that requests a model answers UNKNOWN and runs no
\* stage.
C7_Original ==
    (pc = "done" /\ produceModel) => (response = "UNKNOWN" /\ history = <<>>)

\* C7, amended: a call that requests a model returns at once with no response
\* (a null pointer, no verdict) and runs no stage.
C7_ModelRequest ==
    produceModel => (pc = "done" /\ response = "nullptr" /\ history = <<>>)

C7_Witness == produceModel /\ pc = "done" /\ cancelled

\* C8: when run() has returned, predicateHeld is true exactly if the predicate
\* accepts the sort of every term reachable from the constraints.
C8_ConformanceResult ==
    passPc = "done" =>
        (predicateHeld <=> \A n \in ReachableTerms : sortOf[n] \in predicate)

\* run() has returned true for a query with a term shared by two parents.
C8_Witness ==
    /\ passPc = "done"
    /\ predicateHeld
    /\ \E n \in ReachableTerms : Cardinality(Parents(n)) >= 2

\* C9: when the sort check has failed the call answers UNKNOWN and runs no
\* further stage; the builder pass begins only for a query all of whose
\* reachable terms have supported sorts.
C9_UnsupportedSorts ==
    /\ (passPc = "done" /\ ~predicateHeld) =>
          /\ Events \subseteq {"CheckSorts.begin", "CheckSorts.end"}
          /\ pc \in {"cs_lock2", "cs_erase", "cs_ret", "done"}
          /\ pc = "done" => response = "UNKNOWN"
    /\ "BuildProgram.begin" \in Events =>
          \A n \in ReachableTerms : SortIsSupported(sortOf[n])

C9_Witness ==
    /\ pc = "done"
    /\ passPc = "done"
    /\ ~predicateHeld
    /\ response = "UNKNOWN"

\* C10: when cim.compile() has returned failure the call answers UNKNOWN,
\* lim.fuzz() is never called and no corpus or artifact directory is made.
C10_CompileFailure ==
    compileSuccess = "failure" =>
        /\ pc = "done"
        /\ response = "UNKNOWN"
        /\ "ConfigureFuzzer.begin" \notin Events
        /\ "Fuzz.begin" \notin Events
        /\ dirs = {}

C10_Witness ==
    /\ compileSuccess = "failure"
    /\ ~cancelled
    /\ pc = "done"

\* C11 as stated: once a cancel() has been called the flag is set and stays
\* set; the thread in fuzz() holds the registry lock only inside the short
\* blocks that change the registry, never while a pass, the compiler or the
\* fuzzer runs; and every cancel() call that has begun can go on to its end,
\* whenever it is made (before, during or after the call of fuzz()).
C11_CancelCompletes ==
    /\ (\E c \in Cancellers : cpc[c] # "idle") => cancelled
    /\ mutexOwner = SolveThread =>
          pc \in {"cs_insert", "cs_erase", "bp_insert", "bp_reinsert"}
    /\ \A c \in Cancellers :
          /\ mutexOwner = CancelThread(c) => cpc[c] = "passes"
          /\ cpc[c] = "passes" => ENABLED CancelPasses(c)
          /\ cpc[c] = "cim" => ENABLED CancelCim(c)
          /\ cpc[c] = "lim" => ENABLED CancelLim(c)

\* C12: every step of a cancel() call, in whatever phase of fuzz() it is
\* made: the first step sets the flag; the loop over the registry runs with
\* the lock held and the flag set, before the managers are told, and calls
\* cancel() on every registered pass; the call ends having called
\* cim.cancel() and lim.cancel() once each.
C12_CancelSteps ==
    [][\A c \in Cancellers :
          /\ (cpc[c] = "idle" /\ cpc'[c] # "idle") =>
                (cancelled' /\ cpc'[c] = "lock")
          /\ (cpc[c] = "passes" /\ (cpc'[c] # "passes" \/ crashed')) =>
                /\ mutexOwner = CancelThread(c)
                /\ cancelled
                /\ cimCancels[c] = 0 /\ limCancels[c] = 0
                /\ \A x \in cancellablePasses :
                      IF x \in alive
                      THEN passCancels'[x] = passCancels[x] + 1
                      ELSE deadCancels' > deadCancels
          /\ (cpc[c] = "cim" /\ cpc'[c] # "cim") =>
                (cimCancels'[c] = 1 /\ limCancels'[c] = 0 /\ cpc'[c] = "lim")
          /\ (cpc[c] = "lim" /\ cpc'[c] # "lim") =>
                (cimCancels'[c] = 1 /\ limCancels'[c] = 1 /\ cpc'[c] = "done")
      ]_vars

\* A cancel() made during the sort check, when neither the compiler nor the
\* fuzzer runs, has cancelled the pass and told both managers.
C12_Witness ==
    \E c \in Cancellers :
        /\ calledIn[c] = "CheckSorts"
        /\ cpc[c] = "done"
        /\ passCancels[SortPass] >= 1
        /\ cimCancels[c] = 1
        /\ limCancels[c] = 1
        /\ pc \in {"cs_run", "cs_lock2"}

\* C13: in a run of the pass the predicate is applied to no term twice,
\* however many parents or constraints lead to it; when the run has returned
\* with predicateHeld true it was applied exactly once to every term
\* reachable from the constraints and to no other term.
C13_EvaluatedOncePerTerm ==
    /\ \A n \in Nodes : evals[n] <= 1
    /\ (passPc = "done" /\ predicateHeld) =>
          \A n \in Nodes : evals[n] = IF n \in ReachableTerms THEN 1 ELSE 0

\* A successful run over a query in which one term is a top-level constraint
\* and also the child of two parents.
C13_Witness ==
    /\ passPc = "done"
    /\ predicateHeld
    /\ \E n \in Range(constraints) :
          /\ Cardinality(Parents(n)) >= 2
          /\ evals[n] = 1

\* What a rejection of the sort is to name: the width of a bit-vector, the
\* sort itself otherwise.
C14_Named ==
    IF sort.kind = Z3_BV_SORT
    THEN [names |-> "width", value |-> sort.width]
    ELSE [names |-> "sort", value |-> sort.kind]

\* The sorts C14 says are accepted.
C14_Accepted ==
    \/ sort.kind = Z3_BOOL_SORT
    \/ sort.kind = Z3_BV_SORT /\ sort.width <= 64

\* C14 as stated: the predicate accepts Boolean and the bit-vectors of width at
\* most 64 and nothing else, and every rejection writes a diagnostic naming
\* the width or the sort.
C14_Original ==
    answers # <<>> =>
        /\ answers[1] = C14_Accepted
        /\ ~answers[1] => warnings = <<C14_Named>>

\* C14, amended: the predicate accepts Boolean and the bit-vectors of width at
\* most 64 and nothing else; a rejection writes one diagnostic naming the
\* width or the sort when the context is verbose and none when it is not;
\* an acceptance writes none.
C14_SortPredicate ==
    answers # <<>> =>
        /\ answers[1] = C14_Accepted
        /\ warnings = IF ~answers[1] /\ verbose THEN <<C14_Named>> ELSE <<>>

\* Width 65 has been rejected with a diagnostic naming 65.
C14_Witness ==
    /\ sort = BitVecSort(65)
    /\ answers = <<FALSE>>
    /\ warnings = <<[names |-> "width", value |-> 65]>>

\* C15: the length computed for a buffer of w bits is the least number of
\* bytes that hold w bits: ceil(w / 8), 0 for an empty buffer.
C15_MaxLengthIsCeiling ==
    maxLength # <<>> =>
        LET n == maxLength[1]
        IN  /\ n \in Nat
            /\ n * 8 >= totalWidth
            /\ n > 0 => (n - 1) * 8 < totalWidth

\* Variables of 1, 7 and 16 bits: 24 bits give 3 bytes.
C15_Witness == totalWidth = 1 + 7 + 16 /\ maxLength = <<3>>

\* The terms the predicate was applied to and rejected.
C16_Rejected == {n \in Nodes : evals[n] > 0 /\ sortOf[n] \notin predicate}

\* C16: every run of the pass returns; it returns with an empty worklist or
\* with predicateHeld false, and the predicate has rejected at most one term:
\* the run stops at the first rejection.
C16_RunTerminates ==
    /\ <>(passPc = "done")
    /\ [](passPc = "done" => (workList = <<>> \/ ~predicateHeld))
    /\ [](Cardinality(C16_Rejected) <= 1)
    /\ [](C16_Rejected # {} => (passPc = "done" /\ ~predicateHeld))

\* A run has stopped at a rejected term shared by two parents, with terms
\* left on the worklist.
C16_Witness ==
    /\ passPc = "done"
    /\ ~predicateHeld
    /\ workList # <<>>
    /\ \E n \in C16_Rejected : Cardinality(Parents(n)) >= 2

\* C17 as stated: when the call has returned, the fuzzer parameters held by
\* the options object are what they were at construction.
C17_Original == pc = "done" => lfo = OptionsAtConstruction

\* The fuzzer parameters held by the options object: as at construction
\* until the call configures the fuzzer; from then on, also after the call,
\* the values derived for that call: a length of whole bytes for the buffer,
\* the compiled binary, the corpus and artifact directories made for the
\* call, and the comparison flag as the Clang options ask for it.
C17_FuzzerParameters ==
    IF "ConfigureFuzzer.end" \in Events
    THEN /\ lfo.maxLength \in 0 .. MaxBufferBits
         /\ lfo.targetBinary = "fuzzer"
         /\ lfo.corpusDir = "corpus" /\ "corpus" \in dirs
         /\ lfo.artifactDir = "artifacts" /\ "artifacts" \in dirs
         /\ lfo.useCmp = clangOptions.traceCmp
    ELSE lfo = OptionsAtConstruction /\ dirs = {}

\* C17, amended: no step writes the toolchain options, and the fuzzer
\* parameters are written by the ConfigureFuzzer stage and by nothing else.
C17_OptionsWrittenByConfigure ==
    /\ []C17_FuzzerParameters
    /\ [][clangOptions' = clangOptions]_vars

C17_Witness ==
    /\ pc = "done"
    /\ response = "SAT"
    /\ lfo # OptionsAtConstruction
    /\ lfo.useCmp

\* The phases of the call in which the builder pass has finished and the
\* block that follows it has been left.
C18_BuildLongDone ==
    {"Compile", "AfterCompile", "ConfigureFuzzer", "AfterConfigure", "Fuzz",
     "Returned"}

\* C18 as stated: every pass in the registry exists and has not yet left the
\* block that follows its run; no cancel() goes through the address of a
\* destroyed pass; and when every cancel() was called after the builder pass
\* was done with, or after the call returned, no pass has received a
\* cancel().
C18_OnlyRunningPassesCancelled ==
    /\ cancellablePasses \subseteq alive
    /\ SortPass \in cancellablePasses =>
          ("CheckSorts.end" \notin Events \/ pc \in {"cs_lock2", "cs_erase"})
    /\ BuilderPass \in cancellablePasses =>
          ("BuildProgram.end" \notin Events \/ pc \in {"bp_lock2", "bp_reinsert"})
    /\ deadCancels = 0
    /\ (\A c \in Cancellers : calledIn[c] \in C18_BuildLongDone \cup {"none"}) =>
          \A x \in Passes : passCancels[x] = 0

\* The phases of the call that come before the checkpoint after Compile is
\* evaluated.
C19_BeforeLastCheckpoint ==
    {"NotStarted", "CheckSorts", "AfterCheckSorts", "BuildProgram",
     "AfterBuildProgram", "Compile", "AfterCompile"}

\* The verdict the outcome of the fuzzer stands for.
C19_VerdictOfOutcome == IF fuzzOutcome = "TARGET_FOUND" THEN "SAT" ELSE "UNKNOWN"

\* What C19 says of a call that has found the flag clear at the checkpoint
\* after Compile: the fuzzer is run, and its outcome alone is the verdict.
C19_LateCancel ==
    (seen["Compile->ConfigureFuzzer"] = "clear" /\ pc = "done") =>
        /\ "Fuzz.end" \in Events
        /\ response = C19_VerdictOfOutcome

\* C19 as stated: a cancel() called before the checkpoint after Compile is
\* evaluated keeps lim.fuzz() from being called and makes the call answer
\* UNKNOWN; with the flag clear at that checkpoint the outcome of the fuzzer
\* alone is the verdict.
C19_Original ==
    /\ \A c \in Cancellers :
          calledIn[c] \in C19_BeforeLastCheckpoint =>
              /\ "Fuzz.begin" \notin Events
              /\ pc = "done" => response = "UNKNOWN"
    /\ C19_LateCancel

\* C19, amended: as stated, except that a call that requests a model returns
\* no response whether or not cancel() was called.
C19_CancelBeforeLastCheckpoint ==
    /\ \A c \in Cancellers :
          calledIn[c] \in C19_BeforeLastCheckpoint =>
              /\ "Fuzz.begin" \notin Events
              /\ pc = "done" =>
                    response = IF produceModel THEN "nullptr" ELSE "UNKNOWN"
    /\ C19_LateCancel

\* cancel() was called while the compiler ran, the compiler succeeded all the
\* same, and the call answered UNKNOWN at the checkpoint.
C19_Witness ==
    /\ \A c \in Cancellers : calledIn[c] \in {"Compile", "none"}
    /\ cancelled
    /\ compileSuccess = "success"
    /\ pc = "done"
    /\ response = "UNKNOWN"

\* What a call must have gone through to answer SAT.
C20_SatPath ==
    /\ ~produceModel
    /\ passPc = "done" /\ predicateHeld
    /\ \A b \in Checkpoints : seen[b] = "clear"
    /\ compileSuccess = "success"
    /\ "Fuzz.begin" \in Events
    /\ fuzzOutcome = "TARGET_FOUND"

\* C20: SAT is only ever the answer of a call that has returned, and a call
\* that has returned has answered SAT exactly if it requested no model, the
\* sort check passed, the flag was clear at the three checkpoints, the
\* compiler succeeded and the fuzzer was run and reported TARGET_FOUND.
C20_SatIsSound ==
    /\ response = "SAT" => pc = "done"
    /\ pc = "done" => (response = "SAT" <=> C20_SatPath)

\* SAT for a query with constraints, with no cancel() at all.
C20_Witness ==
    /\ response = "SAT"
    /\ constraints # <<>>
    /\ \A c \in Cancellers : cpc[c] = "idle"

====
